---- MODULE Spec2Model ----
(***************************************************************************)
(* Conference room display server (server.js): the TokenManager, the       *)
(* server start-up and the /api/appointments request handler, as a state   *)
(* machine.  One JavaScript turn (the code between two awaits) is one      *)
(* atomic step; the awaits on the network and on the file system are the   *)
(* points where the turns of concurrent requests interleave.               *)
(*                                                                         *)
(* Times are in seconds (the code's milliseconds divided by 1000).         *)
(***************************************************************************)
EXTENDS Integers, Sequences, FiniteSets, TLC

\* ------------------------------------------------------------------ bounds
MaxMint  == 2           \* refresh requests the upstream answers with 2xx
MaxTicks == 1           \* clock advances
\* contact links the appointments of one search result can hold
ContactLinks == {0, 1}

\* ------------------------------------------------------- program constants
FiveMinutes  == 300     \* 5 * 60 * 1000 ms
OneHour      == 3600    \* 60 * 60 * 1000 ms
DefaultTtl   == 3600    \* data.expires_in || 3600
TickSeconds  == OneHour - FiveMinutes   \* one clock advance

\* The displays that poll /api/appointments: one per conference room.
Displays == {"Large", "Small"}

\* -------------------------------------------------------- JavaScript values
\* Every value is a record [kind, n], so that any two values compare.
Val(k, i) == [kind |-> k, n |-> i]
Null      == Val("null", 0)
Undef     == Val("undef", 0)
Omitted   == Val("omitted", 0)      \* a key JSON.stringify left out
Num(i)    == Val("num", i)
Date(t)   == Val("date", t)
Iso(t)    == Val("iso", t)          \* Date.prototype.toISOString
Tok(k, i) == Val(k, i)              \* a token string

\* JavaScript truthiness of a value (null, undefined and 0 are falsy).
Truthy(v) == /\ v.kind \notin {"null", "undef", "omitted"}
             /\ ~(v.kind = "num" /\ v.n = 0)

\* a || b
OrElse(a, b) == IF Truthy(a) THEN a ELSE b

\* `Bearer ${accessToken}`: the template formats null and undefined too.
Bearer(tok) == Val("Bearer " \o tok.kind, tok.n)

\* ------------------------------------------------------------ tokens.json
Absent  == [kind |-> "absent",  accessToken |-> Omitted, refreshToken |-> Omitted,
            tokenExpiry |-> Omitted]
Corrupt == [kind |-> "corrupt", accessToken |-> Omitted, refreshToken |-> Omitted,
            tokenExpiry |-> Omitted]
\* What a write that did not finish leaves: fs.writeFile truncates the file
\* and then writes the text, so the file is empty or holds a prefix of it.
Truncated == [kind |-> "truncated", accessToken |-> Omitted,
              refreshToken |-> Omitted, tokenExpiry |-> Omitted]

\* JSON.stringify of one property: undefined is left out, the rest is kept.
Stringify(v) == IF v.kind = "undef" THEN Omitted ELSE v

\* JSON.parse of one property: a key that is not there reads as undefined.
ParseField(v) == IF v.kind = "omitted" THEN Undef ELSE v

\* saveTokens(): the text handed to fs.writeFile.
SerializeWrongExpiry(tm) ==
    [kind |-> "json",
     accessToken  |-> Stringify(tm.accessToken),
     refreshToken |-> Stringify(tm.refreshToken),
     tokenExpiry  |-> Null]
Serialize(tm) ==
    [kind |-> "json",
     accessToken  |-> Stringify(tm.accessToken),
     refreshToken |-> Stringify(tm.refreshToken),
     tokenExpiry  |-> IF Truthy(tm.tokenExpiry) THEN Iso(tm.tokenExpiry.n) ELSE Null]

\* ----------------------------------------------------------- TokenManager
\* The instance: the three fields of the class; `stamp`, which records for
\* each field the number of the refresh response that last wrote it (0:
\* written at start-up); and `expiresIn`, the expires_in of the refresh
\* response applied last.
NoStamp == [accessToken |-> 0, refreshToken |-> 0, tokenExpiry |-> 0]

\* constructor()
Constructed(envRT) ==
    [accessToken  |-> Null,
     refreshToken |-> OrElse(envRT, Null),
     tokenExpiry  |-> Null,
     stamp        |-> NoStamp,
     expiresIn    |-> Undef]

\* initialize(), lines 28-31: the fields after a record was parsed.
Loaded(tm, f) ==
    [tm EXCEPT
       !.accessToken  = ParseField(f.accessToken),
       !.refreshToken = OrElse(ParseField(f.refreshToken), tm.refreshToken),
       !.tokenExpiry  = IF Truthy(ParseField(f.tokenExpiry))
                        THEN Date(ParseField(f.tokenExpiry).n) ELSE Null]

\* A fresh process whose DAYLITE_REFRESH_TOKEN is e reads record f: the
\* constructor, then lines 28-31.
Restarted(e, f) == Loaded(Constructed(e), f)

\* initialize(), lines 44-46: seeding from DAYLITE_ACCESS_TOKEN.
Seeded(tm, envAT, t) ==
    [tm EXCEPT !.accessToken = envAT, !.tokenExpiry = Date(t + OneHour)]

\* needsRefresh()
NeedsRefreshStrict(tm, t) ==
    IF ~Truthy(tm.tokenExpiry) THEN TRUE
    ELSE tm.tokenExpiry.n < t + FiveMinutes
NeedsRefresh(tm, t) ==
    IF ~Truthy(tm.tokenExpiry) THEN TRUE
    ELSE tm.tokenExpiry.n <= t + FiveMinutes

\* refreshAccessToken(), lines 91-96: the fields after response body `data`
\* was read at time t; g numbers the response.
ApplyRefreshKeepExpiry(tm, data, t, g) ==
    [tm EXCEPT
       !.accessToken  = OrElse(data.access_token, data.token),
       !.refreshToken = OrElse(data.refresh_token, tm.refreshToken),
       !.stamp = [accessToken  |-> g,
                  refreshToken |-> IF Truthy(data.refresh_token) THEN g
                                   ELSE tm.stamp.refreshToken,
                  tokenExpiry  |-> tm.stamp.tokenExpiry]]
ApplyRefresh(tm, data, t, g) ==
    [accessToken  |-> OrElse(data.access_token, data.token),
     refreshToken |-> OrElse(data.refresh_token, tm.refreshToken),
     tokenExpiry  |-> Date(t + OrElse(data.expires_in, Num(DefaultTtl)).n),
     stamp        |-> [accessToken  |-> g,
                       refreshToken |-> IF Truthy(data.refresh_token) THEN g
                                        ELSE tm.stamp.refreshToken,
                       tokenExpiry  |-> g],
     expiresIn    |-> data.expires_in]

\* The failure paths of refreshAccessToken() (lines 65-67, 84-87, 101-104)
\* throw before line 91: the instance is as it was.
AfterFailedRefreshCleared(tm) == [tm EXCEPT !.accessToken = Null]
AfterFailedRefresh(tm) == tm

\* ----------------------------------------------------------------- errors
\* An Error: what threw it and, for line 86, the status its message quotes.
Err(k, s) == [kind |-> k, status |-> s]
NoErr           == Err("none", 0)
NoRefreshToken  == Err("noRefreshToken", 0)  \* line 66
Unauthorized    == Err("unauthorized", 401)  \* line 180
TransportError  == Err("transport", 0)       \* fetch() rejects
ParseError      == Err("parse", 0)           \* response.json() rejects
WriteError      == Err("write", 0)           \* fs.writeFile rejects
\* line 86: `Failed to refresh token: ${status} - ${errorText}`
RefreshHttpError(s) == Err("refreshHttp", s)

\* What the history of a request keeps of an error it caught: whether it
\* came from a resource answer of status 401, from a refresh endpoint answer
\* of status 401, or from anything else.
Cause(e) ==
    IF e.kind = "unauthorized" THEN "status401"
    ELSE IF e.kind = "refreshHttp" /\ e.status = 401 THEN "refresh401"
    ELSE "other"

\* error.message.includes('401'), line 148.
Includes401(e) ==
    \/ e.kind = "unauthorized"
    \/ e.kind = "refreshHttp" /\ e.status = 401

\* ------------------------------------------------------- upstream answers
\* Refresh endpoint: a non-2xx status, or no answer.
RefreshFailures ==
    { RefreshHttpError(401), RefreshHttpError(500), TransportError }

\* Refresh endpoint, 2xx: the body's optional fields; g numbers the response.
\* With both displays on, the upstream answers with a full body or an empty
\* one; with one display on, also with a short-lived token under `token`, or
\* with a token and expires_in: 0.
Body(a, k, r, e) ==
    [access_token |-> a, token |-> k, refresh_token |-> r, expires_in |-> e]
RefreshBodies(g, on) ==
    { Body(Tok("at", g), Undef, Tok("rt", g), Num(2 * OneHour)),
      Body(Undef, Undef, Undef, Undef) }
    \cup (IF Cardinality(on) = 1
          THEN { Body(Undef, Tok("tk", g), Undef, Num(FiveMinutes)),
                 Body(Tok("at", g), Undef, Undef, Num(0)) }
          ELSE {})

\* Resource API: status 0 is a transport failure; `json` tells whether the
\* body parses; `contacts` is the number of contact links in a search result.
Answer(s, j, c) == [status |-> s, json |-> j, contacts |-> c]
SearchAnswers ==
    { Answer(0, FALSE, 0), Answer(401, TRUE, 0), Answer(500, TRUE, 0),
      Answer(500, FALSE, 0), Answer(200, FALSE, 0) }
    \cup { Answer(200, TRUE, c) : c \in ContactLinks }
ContactAnswers == { a \in SearchAnswers : a.contacts = 0 }

\* ------------------------------------------------------ the request handler
\* res.status(500).json({error}), line 160, and res.json(list), lines 143, 153.
RespondOnlyOk(q, st) ==
    IF st = 200
    THEN [q EXCEPT !.pc = "done", !.status = st, !.origin = "none",
                   !.stage = "none", !.todo = 0, !.bearer = Null,
                   !.pending = Absent, !.forcedStamp = 0, !.bearerStamp = 0]
    ELSE [q EXCEPT !.pc = "hung", !.origin = "none", !.stage = "none",
                   !.todo = 0, !.bearer = Null, !.pending = Absent,
                   !.forcedStamp = 0, !.bearerStamp = 0]
Respond(q, st) ==
    [q EXCEPT !.pc = "done", !.status = st, !.origin = "none", !.stage = "none",
              !.todo = 0, !.bearer = Null, !.pending = Absent,
              !.forcedStamp = 0, !.bearerStamp = 0]

\* The catch blocks of the handler, lines 144-161, entered with error e.
\* attempt 1: the outer catch; attempt 2: the catch of the retry.
HandlerCatchAgain(q, e, tm) ==
    LET q1 == IF q.attempt = 1 THEN [q EXCEPT !.caught = Cause(e)]
              ELSE [q EXCEPT !.retryCaught = Cause(e)]
    IN  IF Includes401(e) /\ Truthy(tm.refreshToken)
        THEN [q1 EXCEPT !.attempt = 2, !.forced = @ + 1,
                        !.pc = "refresh", !.origin = "forced"]
        ELSE Respond(q1, 500)
HandlerCatchNoRetry(q, e, tm) ==
    IF q.attempt = 1
    THEN Respond([q EXCEPT !.caught = Cause(e)], 500)
    ELSE Respond([q EXCEPT !.retryCaught = Cause(e)], 500)
HandlerCatch(q, e, tm) ==
    IF q.attempt = 1
    THEN IF Includes401(e)
         THEN \* line 150: refreshAccessToken() called from the handler
              LET q2 == [q EXCEPT !.caught = Cause(e), !.attempt = 2, !.forced = @ + 1]
              IN  IF Truthy(tm.refreshToken)
                  THEN [q2 EXCEPT !.pc = "refresh", !.origin = "forced"]
                  ELSE Respond([q2 EXCEPT !.retryCaught = Cause(NoRefreshToken)], 500)
         ELSE Respond([q EXCEPT !.caught = Cause(e)], 500)
    ELSE Respond([q EXCEPT !.retryCaught = Cause(e)], 500)

\* authenticatedFetch(), lines 168-176, once getValidToken() has returned:
\* the request leaves with the access token the instance holds now.
IssueFetch(q, tm) ==
    [q EXCEPT !.pc = "fetch", !.origin = "none", !.pending = Absent,
              !.bearer = Bearer(tm.accessToken),
              \* the refresh response that wrote the token sent
              !.bearerStamp = tm.stamp.accessToken]

\* authenticatedFetch() up to its first await: getValidToken(), lines
\* 117-121, and the synchronous head of refreshAccessToken(), lines 65-82.
AuthenticatedFetch(q, tm, t) ==
    IF NeedsRefresh(tm, t)
    THEN IF Truthy(tm.refreshToken)
         THEN [q EXCEPT !.pc = "refresh", !.origin = "proactive"]
         ELSE HandlerCatch(q, NoRefreshToken, tm)
    ELSE IssueFetch(q, tm)

\* getAppointmentsForToday() up to its first await, lines 187-210.
GetAppointmentsForToday(q, tm, t) ==
    AuthenticatedFetch([q EXCEPT !.stage = "search", !.todo = 0,
                                 !.execs = @ + 1, !.degraded = FALSE], tm, t)

\* The resource request of q is answered with a: authenticatedFetch() lines
\* 176-183, then getAppointmentsForToday() lines 211-254 up to the next
\* await, then the handler, lines 142-143.
OnAnswer(q, a, tm, t) ==
    IF a.status = 0 THEN HandlerCatch(q, TransportError, tm)
    ELSE IF a.status = 401 THEN HandlerCatch(q, Unauthorized, tm)
    ELSE IF ~a.json THEN HandlerCatch(q, ParseError, tm)
    ELSE LET q1 == [q EXCEPT
                      \* data.results || [] and contactData.first_name read
                      \* an error body as an empty result
                      !.degraded = @ \/ a.status # 200]
             n  == IF q.stage = "search"
                   THEN (IF a.status = 200 THEN a.contacts ELSE 0)
                   ELSE q.todo
         IN  IF n > 0
             THEN AuthenticatedFetch([q1 EXCEPT !.stage = "contact",
                                                !.todo = n - 1], tm, t)
             ELSE Respond(q1, 200)

\* refreshAccessToken() returned to the code that called it for q: line 121
\* for getValidToken(), line 151 for the handler's retry.
AfterRefresh(q, tm, t) ==
    IF q.origin = "forced"
    THEN GetAppointmentsForToday([q EXCEPT !.origin = "none", !.pending = Absent],
                                 tm, t)
    ELSE IssueFetch(q, tm)

\* --------------------------------------------------------------- start-up
\* Each of the following gives the pair [srv, tm] after a turn of
\* initialize().

\* refreshAccessToken() called by initialize(), lines 37 and 50, up to its
\* first await: without a refresh token it throws, line 66.
InitRefresh(s, tm) ==
    IF Truthy(tm.refreshToken)
    THEN [srv |-> [s EXCEPT !.pc = "refresh", !.calls = @ + 1,
                            !.refreshes = @ + 1],
          tm  |-> tm]
    ELSE [srv |-> [s EXCEPT !.pc = "thrown", !.calls = @ + 1], tm |-> tm]

\* initialize(), the catch block, lines 39-54.
InitCatchNoThrow(s, tm, envAT, t) ==
    IF Truthy(envAT)
    THEN LET seeded == Seeded(tm, envAT, t)
         IN  [srv |-> [s EXCEPT !.pc = "save", !.ctx = "catch",
                                !.pending = Serialize(seeded)],
              tm  |-> seeded]
    ELSE IF Truthy(tm.refreshToken)
    THEN InitRefresh([s EXCEPT !.ctx = "catch"], tm)
    ELSE [srv |-> [s EXCEPT !.pc = "listening", !.ctx = "catch"], tm |-> tm]
InitCatch(s, tm, envAT, t) ==
    IF Truthy(envAT)
    THEN LET seeded == Seeded(tm, envAT, t)
         IN  [srv |-> [s EXCEPT !.pc = "save", !.ctx = "catch",
                                !.pending = Serialize(seeded)],
              tm  |-> seeded]
    ELSE IF Truthy(tm.refreshToken)
    THEN InitRefresh([s EXCEPT !.ctx = "catch"], tm)
    ELSE \* line 52 throws; startServer() catches and exits, lines 315-317
         [srv |-> [s EXCEPT !.pc = "exited", !.ctx = "catch"], tm |-> tm]

\* initialize() returned: startServer() calls app.listen(), line 311.
InitReturn(s, tm) ==
    [srv |-> [s EXCEPT !.pc = "listening", !.pending = Absent], tm |-> tm]

\* initialize(), the try block up to its first await on the network, lines
\* 26-37; f is what fs.readFile found.
InitTryCorruptThrows(s, tm, f, envAT, t) ==
    IF f.kind = "json"
    THEN LET loaded == Loaded(tm, f)
             s1     == [s EXCEPT !.boot = f.kind,
                                 !.bootExpiry = loaded.tokenExpiry]
         IN  IF NeedsRefresh(loaded, t)
             THEN InitRefresh(s1, loaded)
             ELSE InitReturn(s1, loaded)
    ELSE IF f.kind = "corrupt"
    THEN [srv |-> [s EXCEPT !.boot = f.kind, !.pc = "exited"], tm |-> tm]
    ELSE InitCatch([s EXCEPT !.boot = f.kind], tm, envAT, t)
InitTry(s, tm, f, envAT, t) ==
    IF f.kind = "json"
    THEN LET loaded == Loaded(tm, f)
             s1     == [s EXCEPT !.boot = f.kind,
                                 !.bootExpiry = loaded.tokenExpiry]
         IN  IF NeedsRefresh(loaded, t)
             THEN InitRefresh(s1, loaded)
             ELSE InitReturn(s1, loaded)
    ELSE InitCatch([s EXCEPT !.boot = f.kind], tm, envAT, t)

\* An error thrown by refreshAccessToken() or saveTokens() has reached
\* initialize(): inside the try block it enters the catch block, inside the
\* catch block it leaves initialize() and startServer() exits.
InitThrow(s, tm, envAT, t) ==
    IF s.ctx = "try"
    THEN InitCatch([s EXCEPT !.pending = Absent], tm, envAT, t)
    ELSE [srv |-> [s EXCEPT !.pc = "exited", !.pending = Absent], tm |-> tm]

\* app.listen() has been called, lines 309-311: requests are accepted.
ListeningEarly(s) == s.pc # "exited"
Listening(s) == s.pc = "listening"

\* ------------------------------------------------------------------ state
VARIABLES
    now,        \* Date.now(), seconds
    envAT,      \* process.env.DAYLITE_ACCESS_TOKEN
    envRT,      \* process.env.DAYLITE_REFRESH_TOKEN
    file,       \* tokens.json
    tm,         \* tokenManager
    minted,     \* 2xx answers of the refresh endpoint so far
    srv,        \* startServer()
    clients,    \* the displays that are switched on
    req         \* the handler of each display's request

vars == <<now, envAT, envRT, file, tm, minted, srv, clients, req>>

FileRec(a, r, e) ==
    [kind |-> "json", accessToken |-> a, refreshToken |-> r, tokenExpiry |-> e]

\* tokens.json when the process starts, relative to start time 0.
InitialFiles ==
    { Absent, Corrupt }
    \cup { FileRec(Tok("fileAT", 0), Tok("fileRT", 0), Iso(0 - 2 * FiveMinutes)),
           FileRec(Tok("fileAT", 0), Tok("fileRT", 0), Iso(OneHour)),
           FileRec(Tok("fileAT", 0), Null, Null),
           FileRec(Omitted, Tok("fileRT", 0), Iso(FiveMinutes)) }

\* startServer(): where it stands, whether initialize() is in its try or its
\* catch block, the text being written; and its history: what fs.readFile
\* found, the expiry loaded, the calls of refreshAccessToken() and the
\* refresh requests sent.
Srv0 == [pc |-> "start", ctx |-> "try", pending |-> Absent,
         boot |-> "none", bootExpiry |-> Null, calls |-> 0, refreshes |-> 0]

Req0 == [pc |-> "idle", attempt |-> 0, origin |-> "none", stage |-> "none",
         todo |-> 0, bearer |-> Null, pending |-> Absent,
         status |-> 0, degraded |-> FALSE,
         \* history of the request
         execs |-> 0, forced |-> 0, caught |-> "none", retryCaught |-> "none",
         forcedStamp |-> 0, bearerStamp |-> 0]

\* Every start-up configuration with one display; with both displays, the
\* configurations of a set-up server (README, "Getting Your Tokens").
Init ==
    /\ now = 0
    /\ \/ /\ clients = {"Large"}
          /\ envAT \in { Undef, Tok("envAT", 0) }
          /\ envRT \in { Undef, Tok("envRT", 0) }
          /\ file \in InitialFiles
       \/ /\ clients = Displays
          /\ envAT = Undef
          /\ envRT = Tok("envRT", 0)
          /\ file \in { Absent,
                        FileRec(Tok("fileAT", 0), Tok("fileRT", 0), Iso(OneHour)) }
    /\ tm = Constructed(envRT)
    /\ minted = 0
    /\ srv = Srv0
    /\ req = [r \in Displays |-> Req0]

\* ---------------------------------------------------------------- actions
\* startServer() calls initialize(); fs.readFile answers.
Initialize ==
    /\ srv.pc = "start"
    /\ LET n == InitTry(srv, tm, file, envAT, now)
       IN  srv' = n.srv /\ tm' = n.tm
    /\ UNCHANGED <<clients, now, envAT, envRT, file, minted, req>>

\* The refresh request of initialize() is answered 2xx with body `data`:
\* lines 89-98 up to the await on fs.writeFile.
InitRefreshOk ==
    /\ srv.pc = "refresh"
    /\ minted < MaxMint
    /\ \E data \in RefreshBodies(minted + 1, clients) :
         /\ tm' = ApplyRefresh(tm, data, now, minted + 1)
         /\ srv' = [srv EXCEPT !.pc = "save", !.pending = Serialize(tm')]
    /\ minted' = minted + 1
    /\ UNCHANGED <<clients, now, envAT, envRT, file, req>>

\* The refresh request of initialize() fails: refreshAccessToken() throws.
InitRefreshFail ==
    /\ srv.pc = "refresh"
    /\ \E e \in RefreshFailures :
         /\ tm' = AfterFailedRefresh(tm)
         /\ srv' = [srv EXCEPT !.pc = "thrown"]
    /\ UNCHANGED <<clients, now, envAT, envRT, file, minted, req>>

\* initialize() receives the error thrown.
InitCaught ==
    /\ srv.pc = "thrown"
    /\ LET n == InitThrow(srv, tm, envAT, now)
       IN  srv' = n.srv /\ tm' = n.tm
    /\ UNCHANGED <<clients, now, envAT, envRT, file, minted, req>>

\* fs.writeFile of initialize() succeeds: initialize() returns.
InitSaveOk ==
    /\ srv.pc = "save"
    /\ file' = srv.pending
    /\ LET n == InitReturn(srv, tm)
       IN  srv' = n.srv /\ tm' = n.tm
    /\ UNCHANGED <<clients, now, envAT, envRT, minted, req>>

\* fs.writeFile of initialize() fails: saveTokens() throws.
InitSaveFail ==
    /\ srv.pc = "save"
    /\ srv' = [srv EXCEPT !.pc = "thrown", !.pending = Absent]
    /\ UNCHANGED <<clients, now, envAT, envRT, file, tm, minted, req>>

\* A display client asks for /api/appointments: the handler runs up to its
\* first await.
Arrive(r) ==
    /\ Listening(srv)
    /\ req[r].pc = "idle"
    /\ req' = [req EXCEPT
                 ![r] = GetAppointmentsForToday([@ EXCEPT !.attempt = 1], tm, now)]
    /\ UNCHANGED <<clients, now, envAT, envRT, file, tm, minted, srv>>

\* The refresh request made for r is answered 2xx.
RefreshOk(r) ==
    /\ req[r].pc = "refresh"
    /\ minted < MaxMint
    /\ \E data \in RefreshBodies(minted + 1, clients) :
         /\ tm' = ApplyRefresh(tm, data, now, minted + 1)
         /\ req' = [req EXCEPT ![r] =
                      [@ EXCEPT !.pc = "save", !.pending = Serialize(tm'),
                                !.forcedStamp = IF @ = 0 /\ req[r].origin = "forced"
                                                THEN minted + 1 ELSE @]]
    /\ minted' = minted + 1
    /\ UNCHANGED <<clients, now, envAT, envRT, file, srv>>

\* The refresh request made for r fails: refreshAccessToken() throws.
RefreshFail(r) ==
    /\ req[r].pc = "refresh"
    /\ tm' = AfterFailedRefresh(tm)
    /\ \E e \in RefreshFailures :
         req' = [req EXCEPT ![r] = HandlerCatch(@, e, tm')]
    /\ UNCHANGED <<clients, now, envAT, envRT, file, minted, srv>>

\* fs.writeFile of the refresh made for r succeeds: refreshAccessToken()
\* returns and its caller goes on.
SaveOk(r) ==
    /\ req[r].pc = "save"
    /\ file' = req[r].pending
    /\ req' = [req EXCEPT ![r] = AfterRefresh(@, tm, now)]
    /\ UNCHANGED <<clients, now, envAT, envRT, tm, minted, srv>>

\* fs.writeFile of the refresh made for r fails: refreshAccessToken() throws.
SaveFail(r) ==
    /\ req[r].pc = "save"
    /\ req' = [req EXCEPT ![r] = HandlerCatch(@, WriteError, tm)]
    /\ UNCHANGED <<clients, now, envAT, envRT, file, tm, minted, srv>>

\* The resource request of r is answered.
FetchDone(r) ==
    /\ req[r].pc = "fetch"
    /\ \E a \in (IF req[r].stage = "search" THEN SearchAnswers ELSE ContactAnswers) :
         req' = [req EXCEPT ![r] = OnAnswer(@, a, tm, now)]
    /\ UNCHANGED <<clients, now, envAT, envRT, file, tm, minted, srv>>

\* Time passes.  Time 0 is the moment fs.readFile answers initialize().
Tick ==
    /\ srv.pc # "start"
    /\ now < MaxTicks * TickSeconds
    /\ now' = now + TickSeconds
    /\ UNCHANGED <<clients, envAT, envRT, file, tm, minted, srv, req>>

Next ==
    \/ Initialize
    \/ InitRefreshOk
    \/ InitRefreshFail
    \/ InitCaught
    \/ InitSaveOk
    \/ InitSaveFail
    \/ \E r \in clients : Arrive(r)
    \/ \E r \in clients : RefreshOk(r)
    \/ \E r \in clients : RefreshFail(r)
    \/ \E r \in clients : SaveOk(r)
    \/ \E r \in clients : SaveFail(r)
    \/ \E r \in clients : FetchDone(r)
    \/ Tick

Spec == Init /\ [][Next]_vars

\* Every call the handler of a display awaits returns or fails in the end:
\* the resource request, the refresh request, the write of tokens.json.
Fairness ==
    \A r \in Displays :
      /\ WF_vars(FetchDone(r))
      /\ WF_vars(RefreshOk(r) \/ RefreshFail(r))
      /\ WF_vars(SaveOk(r) \/ SaveFail(r))

\* The start-up configurations of a set-up server: DAYLITE_REFRESH_TOKEN in
\* the environment, and the tokens.json the server wrote or, with one
\* display, none yet.
LiveInit ==
    /\ Init
    /\ envAT = Undef
    /\ envRT = Tok("envRT", 0)
    /\ \/ file = FileRec(Tok("fileAT", 0), Tok("fileRT", 0), Iso(OneHour))
       \/ file = Absent /\ clients = {"Large"}

LiveSpec == LiveInit /\ [][Next]_vars /\ Fairness

\* The texts fs.writeFile is writing.
Writing ==
    (IF srv.pc = "save" THEN {srv.pending} ELSE {})
    \cup { req[r].pending : r \in { d \in clients : req[d].pc = "save" } }

\* The process dies while saveTokens() is writing: the write did not start,
\* finished, or stopped half-way.  The handlers die with the process.
Crash ==
    /\ Writing # {}
    /\ file' \in {file, Truncated} \cup Writing
    /\ srv' = [srv EXCEPT !.pc = "crashed", !.pending = Absent]
    /\ req' = [r \in Displays |->
                 IF req[r].pc \in {"idle", "done"} THEN req[r]
                 ELSE [req[r] EXCEPT !.pc = "dead", !.pending = Absent]]
    /\ UNCHANGED <<clients, now, envAT, envRT, tm, minted>>

CrashNext == Next \/ Crash

\* The server on a machine that can fail while the server runs.
CrashSpec == Init /\ [][CrashNext]_vars

\* ----------------------------------------------------------------- claims
\* A call of refreshAccessToken() made for display r has not returned.
InRefresh(r) == req[r].pc \in {"refresh", "save"}

\* The handler of display r has answered.
Done(r) == req[r].pc = "done"

\* C1 (as claimed): callers of getValidToken() that find needsRefresh() true
\* while a refresh started by getValidToken() is in flight wait for it, so
\* no two refresh requests started by getValidToken() are in flight together.
C1_Coalescing ==
    Cardinality({ r \in clients :
                    req[r].pc = "refresh" /\ req[r].origin = "proactive" }) <= 1

\* The request of display r was answered 401 by the resource API, and its
\* retry met no failure and no error status.
RetryClean(r) ==
    /\ Done(r)
    /\ req[r].caught = "status401"
    /\ req[r].retryCaught = "none"
    /\ ~req[r].degraded

\* A resource request of the retry of display r is in flight.
Reissued(r) ==
    /\ req[r].pc = "fetch"
    /\ req[r].attempt = 2
    /\ req[r].caught = "status401"

\* Such a request ends with the list, after one forced refresh and two runs
\* of the fetch.
RetryOutcome ==
    \A r \in clients :
      RetryClean(r) =>
        req[r].status = 200 /\ req[r].forced = 1 /\ req[r].execs = 2

C3_BoundedRetry ==
    \A r \in clients :
      /\ req[r].forced <= 1
      /\ req[r].execs <= 2
      /\ req[r].attempt <= 2
      /\ (Done(r) /\ req[r].caught = "status401"
                  /\ req[r].retryCaught = "status401")
           => (req[r].status = 500 /\ req[r].forced = 1 /\ req[r].execs = 2)

C3_Witness ==
    \E r \in clients :
      /\ Done(r)
      /\ req[r].caught = "status401"
      /\ req[r].retryCaught = "status401"
      /\ req[r].status = 500

\* The step leaves accessToken and refreshToken as they were.
SameTokens ==
    /\ tm'.accessToken = tm.accessToken
    /\ tm'.refreshToken = tm.refreshToken

\* The step ends the refresh request made for display r without a body to
\* apply.
RefreshFailedFor(r) ==
    /\ req[r].pc = "refresh"
    /\ req'[r] # req[r]
    /\ req'[r].pc # "save"

\* The step hands the error to the handler of display r: its catch block
\* runs, it answers 500 or starts the forced refresh, and it sends no
\* resource request.
RaisedTo(r) ==
    /\ req'[r].pc \in {"done", "refresh"}
    /\ IF req[r].attempt = 1 /\ req[r].origin = "proactive"
       THEN /\ req'[r].caught \in {"refresh401", "other"}
            /\ req'[r].pc = "done" => req'[r].status = 500
            /\ req'[r].pc = "refresh" => req'[r].origin = "forced"
       ELSE /\ req'[r].retryCaught \in {"refresh401", "other"}
            /\ req'[r].pc = "done" /\ req'[r].status = 500

\* C4: the step in which a refresh request fails (non-2xx status or no
\* answer) leaves accessToken and refreshToken as they were, and the error
\* reaches the caller: the handler of the request, or initialize().
C4_FailedRefreshKeepsTokens ==
    [][ /\ \A r \in clients : RefreshFailedFor(r) => (SameTokens /\ RaisedTo(r))
        /\ (srv.pc = "refresh" /\ srv' # srv /\ srv'.pc # "save")
             => (SameTokens /\ srv'.pc = "thrown") ]_vars

C4_Witness ==
    \E r \in clients :
      /\ req[r].caught = "refresh401"
      /\ Truthy(tm.accessToken)
      /\ Truthy(tm.refreshToken)

StaleAtBoot ==
    /\ srv.boot = "json"
    /\ (srv.bootExpiry = Null \/ srv.bootExpiry.n <= FiveMinutes)

\* C6: no handler runs before initialize() has returned; and when the record
\* loaded is stale, initialize() has called refreshAccessToken(), and the
\* server listens only after a refresh request was sent (or, the refresh
\* having failed, after the seed from DAYLITE_ACCESS_TOKEN).
C6_StartupOrdering ==
    /\ srv.pc # "listening" => \A r \in Displays : req[r].pc = "idle"
    /\ StaleAtBoot => srv.calls >= 1
    /\ (StaleAtBoot /\ srv.pc = "listening")
         => (srv.refreshes >= 1 \/ Truthy(envAT))

C6_Witness ==
    /\ StaleAtBoot
    /\ srv.pc = "listening"
    /\ srv.refreshes = 1
    /\ \E r \in clients : req[r].pc = "fetch"

\* No tokens.json was found, and the environment holds a refresh token only.
SeedRefreshOnly ==
    /\ srv.boot = "absent"
    /\ ~Truthy(envAT)
    /\ Truthy(envRT)

\* C7: with no tokens.json and only DAYLITE_REFRESH_TOKEN set, initialize()
\* sends exactly one refresh request, and when it returns tokens.json holds
\* the credential of the instance, written by that refresh.
C7_SeedWithRefreshToken ==
    SeedRefreshOnly =>
      /\ srv.refreshes = 1
      /\ srv.calls = 1
      /\ (srv.pc = "listening" /\ \A r \in Displays : req[r].pc = "idle")
           => /\ file.kind = "json"
              /\ ParseField(file.accessToken) = tm.accessToken
              /\ file.refreshToken = tm.refreshToken
              /\ file.tokenExpiry = Iso(tm.tokenExpiry.n)
              /\ tm.stamp.accessToken = 1

C7_Witness ==
    /\ SeedRefreshOnly
    /\ srv.pc = "listening"
    /\ file.kind = "json"
    /\ file.accessToken = Tok("at", 1)

\* Neither the environment nor a readable tokens.json holds a token.
NoTokenAnywhere ==
    /\ ~Truthy(envAT)
    /\ ~Truthy(envRT)
    /\ (IF srv.pc = "start" THEN file.kind ELSE srv.boot) # "json"

\* C8: with no token in the environment and no tokens.json to read,
\* startServer() never listens and no handler ever runs.
C8_AbortWithoutTokens ==
    NoTokenAnywhere =>
      /\ srv.pc \in {"start", "exited"}
      /\ \A r \in Displays : req[r].pc = "idle"

C8_Witness == NoTokenAnywhere /\ srv.pc = "exited"

\* C9 (as claimed): a request makes a forced refresh only after a resource
\* answer whose status is 401.
C9_ForcedOnlyOnStatus401 ==
    \A r \in clients : req[r].forced > 0 => req[r].caught = "status401"

\* C10 (as claimed): a request is answered with status 200 only when no
\* resource answer of the run that produced the list had an error status.
C10_NoSuccessOnUpstreamError ==
    \A r \in clients : (Done(r) /\ req[r].status = 200) => ~req[r].degraded

\* The expiry of the instance is set and lies more than 5 minutes ahead.
ExpiryAhead ==
    /\ tm.tokenExpiry.kind = "date"
    /\ tm.tokenExpiry.n > now + FiveMinutes

RefreshApplied == tm'.stamp.tokenExpiry # tm.stamp.tokenExpiry

\* C12 (as claimed): the step that applies a refresh response sets
\* tokenExpiry to the time of the step plus the expires_in of the response,
\* or plus 3600 seconds when the response carries no expires_in.
C12_ExpiryFromResponse ==
    [][ RefreshApplied =>
          tm'.tokenExpiry =
            Date(now + (IF tm'.expiresIn = Undef THEN 3600
                        ELSE tm'.expiresIn.n)) ]_vars

\* The texts saveTokens() is writing, taken from the instance as it is now.
BeingSaved ==
    { f \in {srv.pending} \cup { req[r].pending : r \in clients } :
        f.kind = "json" /\ f = Serialize(tm) }

\* C13 (as claimed): the record saveTokens() writes, read by the load step of
\* initialize() in a fresh process, gives accessToken, refreshToken and
\* tokenExpiry as they were saved, whatever DAYLITE_REFRESH_TOKEN holds.
C13_RoundTrip ==
    \A f \in BeingSaved : \A e \in { Undef, Tok("envRT", 0) } :
      /\ Restarted(e, f).accessToken  = tm.accessToken
      /\ Restarted(e, f).refreshToken = tm.refreshToken
      /\ Restarted(e, f).tokenExpiry  = tm.tokenExpiry

\* tokens.json did not parse.
CorruptAtBoot == srv.boot = "corrupt"

\* C14: a tokens.json that does not parse is treated as absent.  With
\* DAYLITE_ACCESS_TOKEN set, initialize() seeds the instance from it, calls
\* no refresh and goes on to save and return; with DAYLITE_REFRESH_TOKEN
\* only, it sends one refresh request and returns with the refreshed
\* credential.  Nothing of the file reaches the instance.
C14_CorruptTreatedAsAbsent ==
    CorruptAtBoot =>
      /\ srv.ctx = "catch"
      /\ tm.refreshToken.kind # "fileRT" /\ tm.accessToken.kind # "fileAT"
      /\ Truthy(envAT) =>
            /\ srv.calls = 0
            /\ tm.stamp.accessToken = 0 =>
                  (tm.accessToken = envAT /\ tm.tokenExpiry = Date(OneHour))
            /\ srv.pc \in {"save", "listening", "thrown", "exited"}
            /\ srv.pc = "listening" => file.kind = "json"
      /\ (~Truthy(envAT) /\ Truthy(envRT)) =>
            /\ srv.calls = 1 /\ srv.refreshes = 1
            /\ srv.pc = "listening" => tm.stamp.accessToken >= 1

C14_Witness ==
    /\ CorruptAtBoot
    /\ Truthy(envAT)
    /\ srv.pc = "listening"
    /\ file.accessToken = envAT
    /\ \E r \in clients : req[r].pc = "fetch" /\ req[r].bearer = Bearer(envAT)

\* C15 (as claimed): when the process dies during a save, tokens.json holds
\* the complete previous record or the complete new one, never a truncated
\* one.
C15_AtomicSave == srv.pc = "crashed" => file.kind # "truncated"

\* C16 (as claimed): once tokens.json has been loaded, initialize() does not
\* enter the seeding branch: the instance is not overwritten from
\* DAYLITE_ACCESS_TOKEN, at most one refresh request is sent, and a failed
\* refresh ends start-up.
C16_NoFallbackAfterLoad ==
    srv.boot = "json" =>
      /\ srv.ctx = "try"
      /\ srv.refreshes <= 1
      /\ tm.accessToken.kind # "envAT"

\* initialize() has returned and no call of refreshAccessToken() is under
\* way.
Quiet ==
    /\ srv.pc = "listening"
    /\ \A r \in clients : ~InRefresh(r)

\* C17 (as claimed): whenever no refresh and no save is in flight,
\* tokens.json holds the credential of the instance.
C17_WriteThrough == Quiet => file = Serialize(tm)

\* C18 (as claimed): right after the step that applies a refresh response,
\* needsRefresh() is false, whatever expires_in the response carried.
C18_RefreshGivesValid ==
    [][ RefreshApplied => ~NeedsRefresh(tm', now') ]_vars

\* C19 (as claimed): once initialize() has returned, accessToken is a string,
\* and every resource request carries a bearer value made from a string.
C19_AccessTokenIsString ==
    /\ srv.pc = "listening" => Truthy(tm.accessToken)
    /\ \A r \in clients :
         req[r].pc = "fetch" =>
           req[r].bearer.kind \notin {"Bearer null", "Bearer undef"}

\* The handler of display r has answered, with the list or with status 500.
Answered(r) == Done(r) /\ req[r].status \in {200, 500}

\* C20: when every call it awaits returns or fails in the end, the handler
\* of every request answers, with the list (status 200) or with status 500,
\* and an answer given is never changed or given again.  (A handler runs up
\* to its first await in the step in which its request arrives, so a request
\* that has arrived is never idle again.)
C20_EveryRequestAnswered ==
    /\ \A r \in Displays : []<>(req[r].pc = "idle" \/ Answered(r))
    /\ [][\A r \in Displays : Done(r) => req'[r] = req[r]]_vars

\* Both displays were answered, one with the list after a retry, one with
\* status 500.
C20_Witness ==
    /\ clients = Displays
    /\ \A r \in Displays : Done(r)
    /\ \E r \in Displays : req[r].status = 200 /\ req[r].forced = 1
    /\ \E r \in Displays : req[r].status = 500

====
